---- MODULE Spec2Model ----
(***************************************************************************)
(* Two-phase timetable generator: LabTimetableGenerator (Lab_Generator.py) *)
(* followed by LectureScheduler (Lecture_Generator.py).  Each phase builds *)
(* boolean decision variables, posts linear constraints on them, asks the  *)
(* CP-SAT solver for an assignment and extracts a grid from it.  The       *)
(* solver is a black box: it may return any assignment that satisfies the  *)
(* posted constraints, or no assignment at all.                            *)
(***************************************************************************)
EXTENDS Integers, Sequences, FiniteSets, TLC

(***************************************************************************)
(* Bounds of the model.  The program schedules five days and four batches  *)
(* per class; the model schedules the first MaxDays days of self.days and  *)
(* the first MaxBatches batches of every class.                            *)
(***************************************************************************)
MaxDays == 3
MaxBatches == 2

(***************************************************************************)
(* Time model (both constructors build the same lists).                    *)
(***************************************************************************)
morning_break == "10:15-10:30"
lunch_break == "12:30-1:15"
evening_break == "3:15-3:30"
morning_slots == <<"8:15-9:15", "9:15-10:15">>
midday_slots == <<"10:30-11:30", "11:30-12:30">>
afternoon_slots == <<"1:15-2:15", "2:15-3:15">>
evening_slots == <<"3:30-4:30", "4:30-5:30">>

all_time_slots ==
    morning_slots \o <<morning_break>> \o midday_slots \o <<lunch_break>> \o
    afternoon_slots \o <<evening_break>> \o evening_slots

break_slots == {morning_break, lunch_break, evening_break}

Range(seq) == {seq[i] : i \in 1..Len(seq)}

\* position of the first occurrence of x in seq (list.index / enumerate)
IndexOf(seq, x) == CHOOSE i \in 1..Len(seq) : seq[i] = x /\ \A j \in 1..(i-1) : seq[j] # x

available_slots == SelectSeq(all_time_slots, LAMBDA s : s \notin break_slots)

all_days == <<"Monday", "Tuesday", "Wednesday", "Thursday", "Friday">>

days == SubSeq(all_days, 1, IF MaxDays < 5 THEN MaxDays ELSE 5)

\* faulty variant: the same-block test is left out
ConsecutivePairs_AcrossBreaks ==
    LET ats == morning_slots \o midday_slots \o afternoon_slots \o evening_slots
    IN  {<<ats[i], ats[i+1]>> : i \in 1..(Len(ats) - 1)}

\* pairs (slot, next slot) written into self.consecutive_slots
ConsecutivePairs ==
    LET ats == morning_slots \o midday_slots \o afternoon_slots \o evening_slots
        SameBlock(a, b) ==
            \/ a \in Range(morning_slots) /\ b \in Range(morning_slots)
            \/ a \in Range(midday_slots) /\ b \in Range(midday_slots)
            \/ a \in Range(afternoon_slots) /\ b \in Range(afternoon_slots)
            \/ a \in Range(evening_slots) /\ b \in Range(evening_slots)
    IN  {<<ats[i], ats[i+1]>> : i \in {j \in 1..(Len(ats) - 1) : SameBlock(ats[j], ats[j+1])}}
        \cup {<<"10:30-11:30", "11:30-12:30">>}

consecutive_slots ==
    [s \in {p[1] : p \in ConsecutivePairs} |-> CHOOSE t \in Range(all_time_slots) : <<s, t>> \in ConsecutivePairs]

te_cluster_slots == <<"8:15-9:15", "9:15-10:15">>
se_cluster_slots == <<"10:30-11:30", "11:30-12:30">>
ajp_lab_slots == <<"3:30-4:30", "4:30-5:30">>

te_lecture_slots ==
    <<"8:15-9:15", "9:15-10:15", "10:30-11:30", "11:30-12:30", "1:15-2:15", "2:15-3:15", "3:30-4:30">>
se_lecture_slots ==
    <<"8:15-9:15", "9:15-10:15", "10:30-11:30", "11:30-12:30", "1:15-2:15", "2:15-3:15", "3:30-4:30",
      "4:30-5:30">>

(***************************************************************************)
(* Classes and batches.  A class name f"{prefix}{i}" is the pair           *)
(* <<prefix, i>>; a batch name f"{prefix}{i}{b}" is the triple.            *)
(***************************************************************************)
\* year[:2].upper() on the year names the inputs below use
Upper2(year) == IF year = "Final Year" THEN "FI" ELSE "XX"

YearPrefix(year) ==
    IF year = "Second Year" THEN "SE"
    ELSE IF year = "Third Year" THEN "TE"
    ELSE IF year = "Fourth Year" THEN "BE"
    ELSE Upper2(year)

AllClasses(d) ==
    LET PerYear(y) == [i \in 1..d.classes_per_year |-> <<YearPrefix(d.years[y]), i>>]
        RECURSIVE Cat(_)
        Cat(y) == IF y > Len(d.years) THEN <<>> ELSE PerYear(y) \o Cat(y + 1)
    IN  Cat(1)

_get_year_from_class(class_name) ==
    IF class_name[1] = "SE" THEN "Second Year"
    ELSE IF class_name[1] = "TE" THEN "Third Year"
    ELSE IF class_name[1] = "BE" THEN "Fourth Year"
    ELSE "Second Year"

BatchesOf(class_name) == [b \in 1..MaxBatches |-> <<class_name[1], class_name[2], b>>]

(***************************************************************************)
(* Lab phase: decision variables.  A key of self.assignments is the record *)
(* of its tuple (the constant activity type "lab" is left out).            *)
(***************************************************************************)
HasLabs(d, subject) ==
    subject \in DOMAIN d.course_structure /\ d.course_structure[subject].labs > 0

\* faulty variant: the Third-Year branch takes the wider list self.te_lab_slots
AllowedLabSlots_TeLabSlots(year, subject) ==
    IF subject = "AJP" THEN ajp_lab_slots
    ELSE IF year = "Third Year"
         THEN <<"8:15-9:15", "9:15-10:15", "10:30-11:30", "11:30-12:30", "1:15-2:15", "2:15-3:15">>
    ELSE IF year = "Second Year" THEN se_cluster_slots
    ELSE available_slots

\* the allowed_slots chosen per (year, subject) in both lab loops
AllowedLabSlots(year, subject) ==
    IF subject = "AJP" THEN ajp_lab_slots
    ELSE IF year = "Third Year" THEN te_cluster_slots
    ELSE IF year = "Second Year" THEN se_cluster_slots
    ELSE available_slots

\* slots of allowed_slots that survive "if time_slot not in self.consecutive_slots: continue"
LabStartSlots(year, subject) ==
    SelectSeq(AllowedLabSlots(year, subject), LAMBDA t : t \in DOMAIN consecutive_slots)

LabKey(c, s, b, dy, t, tch, lab) ==
    [class_name |-> c, subject |-> s, batch |-> b, day |-> dy, time_slot |-> t,
     teacher |-> tch, lab |-> lab]

create_lab_variables(d) ==
    UNION {
      LET year == _get_year_from_class(c)
      IN  UNION {
            IF HasLabs(d, s)
            THEN {LabKey(c, s, b, dy, t, d.lab_teacher_assignments[year][s], lab) :
                    b \in Range(BatchesOf(c)), dy \in Range(days),
                    t \in Range(LabStartSlots(year, s)), lab \in Range(d.lab_rooms)}
            ELSE {}
            : s \in Range(d.subjects_by_year[year])}
      : c \in Range(AllClasses(d))}

(***************************************************************************)
(* Lab phase: hard constraints.  A linear constraint is a record           *)
(* [vars, op, rhs] standing for sum(vars) op rhs.                          *)
(***************************************************************************)
Lin(V, op, rhs) == [vars |-> V, op |-> op, rhs |-> rhs]

\* "Enforce lab room constraints": rooms not skipped for the subject
LabRoomAllowed(subject, lab) ==
    /\ ~(subject \in {"ADE", "DC"} /\ lab # "501")
    /\ ~(subject = "MNA" /\ lab # "504")

\* lab_vars collected for one (class, subject, batch)
LabCountVars(d, A, c, s, b) ==
    LET year == _get_year_from_class(c)
    IN  {k \in A :
           /\ k.class_name = c /\ k.subject = s /\ k.batch = b
           /\ k.day \in Range(days)
           /\ k.time_slot \in Range(LabStartSlots(year, s))
           /\ k.teacher = d.lab_teacher_assignments[year][s]
           /\ k.lab \in Range(d.lab_rooms)
           /\ LabRoomAllowed(s, k.lab)}

LabCountConstraints(d, A) ==
    UNION {
      LET year == _get_year_from_class(c)
      IN  {Lin(LabCountVars(d, A, c, s, b), "eq", d.course_structure[s].labs) :
             <<s, b>> \in {sb \in Range(d.subjects_by_year[year]) \X Range(BatchesOf(c)) :
                             HasLabs(d, sb[1]) /\ LabCountVars(d, A, c, sb[1], sb[2]) # {}}}
      : c \in Range(AllClasses(d))}

\* AddImplication(x, x_twin) for every counted key whose twin at the next slot exists
LabImplications(d, A) ==
    UNION {
      LET year == _get_year_from_class(c)
      IN  UNION {
            IF HasLabs(d, sb[1])
            THEN {<<k, [k EXCEPT !.time_slot = consecutive_slots[k.time_slot]]>> :
                    k \in {x \in LabCountVars(d, A, c, sb[1], sb[2]) :
                             [x EXCEPT !.time_slot = consecutive_slots[x.time_slot]] \in A}}
            ELSE {}
            : sb \in Range(d.subjects_by_year[year]) \X Range(BatchesOf(c))}
      : c \in Range(AllClasses(d))}

\* the (day, slot) pairs every per-slot lab loop visits
LabSlotLoop == {ds \in Range(days) \X Range(available_slots) : ds[2] \in DOMAIN consecutive_slots}

\* faulty variant: the loop runs over every teacher named in a key
LabTeacherConstraints_EveryTeacher(d, A) ==
    UNION {
      LET tv == {k \in A : k.day = x[2] /\ k.time_slot = x[3] /\ k.teacher = x[1]}
          unavailable ==
            /\ x[1] \in DOMAIN d.teacher_availability
            /\ x[2] \in DOMAIN d.teacher_availability[x[1]]
            /\ x[3] \notin d.teacher_availability[x[1]][x[2]]
      IN  IF tv = {} THEN {}
          ELSE (IF unavailable THEN {Lin(tv, "eq", 0)} ELSE {}) \cup {Lin(tv, "le", 1)}
      : x \in {<<t, ds[1], ds[2]>> : t \in {k.teacher : k \in A}, ds \in LabSlotLoop}}

LabTeacherConstraints(d, A) ==
    UNION {
      LET tv == {k \in A : k.day = x[2] /\ k.time_slot = x[3] /\ k.teacher = x[1]}
          unavailable ==
            /\ x[1] \in DOMAIN d.teacher_availability
            /\ x[2] \in DOMAIN d.teacher_availability[x[1]]
            /\ x[3] \notin d.teacher_availability[x[1]][x[2]]
      IN  IF tv = {} THEN {}
          ELSE (IF unavailable THEN {Lin(tv, "eq", 0)} ELSE {}) \cup {Lin(tv, "le", 1)}
      : x \in {<<t, ds[1], ds[2]>> : t \in d.teachers, ds \in LabSlotLoop}}

\* faulty variant: the room loop skips the first lab room
LabRoomConstraints_SkipFirst(d, A) ==
    UNION {
      LET lv == {k \in A : k.day = x[2] /\ k.time_slot = x[3] /\ k.lab = x[1]}
      IN  IF lv = {} THEN {} ELSE {Lin(lv, "le", 1)}
      : x \in {<<r, ds[1], ds[2]>> : r \in Range(Tail(d.lab_rooms)), ds \in LabSlotLoop}}

LabRoomConstraints(d, A) ==
    UNION {
      LET lv == {k \in A : k.day = x[2] /\ k.time_slot = x[3] /\ k.lab = x[1]}
      IN  IF lv = {} THEN {} ELSE {Lin(lv, "le", 1)}
      : x \in {<<r, ds[1], ds[2]>> : r \in Range(d.lab_rooms), ds \in LabSlotLoop}}

\* faulty variant: the batch sum is taken per subject
LabBatchConstraints_PerSubject(d, A) ==
    UNION {
      LET bv == {k \in A : k.class_name = x[1] /\ k.batch = x[2] /\ k.day = x[3]
                           /\ k.time_slot = x[4] /\ k.subject = x[5]}
      IN  IF bv = {} THEN {} ELSE {Lin(bv, "le", 1)}
      : x \in UNION {{<<c, b, ds[1], ds[2], s>> :
                        b \in Range(BatchesOf(c)), ds \in LabSlotLoop,
                        s \in Range(d.subjects_by_year[_get_year_from_class(c)])} :
                       c \in Range(AllClasses(d))}}

LabBatchConstraints(d, A) ==
    UNION {
      LET bv == {k \in A : k.class_name = x[1] /\ k.batch = x[2] /\ k.day = x[3] /\ k.time_slot = x[4]}
      IN  IF bv = {} THEN {} ELSE {Lin(bv, "le", 1)}
      : x \in UNION {{<<c, b, ds[1], ds[2]>> : b \in Range(BatchesOf(c)), ds \in LabSlotLoop} :
                       c \in Range(AllClasses(d))}}

add_lab_constraints(d, A) ==
    [linear |-> LabCountConstraints(d, A) \cup LabTeacherConstraints(d, A)
                  \cup LabRoomConstraints(d, A) \cup LabBatchConstraints(d, A),
     implications |-> LabImplications(d, A)]

(***************************************************************************)
(* Lab phase: add_optimization_objective.                                  *)
(***************************************************************************)
\* slot_vars[i] of one (class, batch, day) is a variable, not None
LabSlotVarFound(A, c, b, dy, t) ==
    /\ t \in DOMAIN consecutive_slots
    /\ \E k \in A : k.class_name = c /\ k.batch = b /\ k.day = dy /\ k.time_slot = t

\* the (class, batch, day) triples both objective loops visit
LabBatchDayLoop(d) ==
    UNION {{<<c, b, dy>> : b \in Range(BatchesOf(c)), dy \in Range(days)}
           : c \in Range(AllClasses(d))}

\* faulty variant: the test on curr_var is left out
LabGapKeys_NoCurrent(d, A) ==
    {<<x[1], x[2], x[3], i>> :
       <<x, i>> \in {p \in LabBatchDayLoop(d) \X (2..(Len(available_slots) - 1)) :
                       /\ LabSlotVarFound(A, p[1][1], p[1][2], p[1][3], available_slots[p[2] - 1])
                       /\ LabSlotVarFound(A, p[1][1], p[1][2], p[1][3], available_slots[p[2] + 1])}}

\* keys of the gap variables: interior positions whose previous, current and
\* next entries of slot_vars are all variables
LabGapKeys(d, A) ==
    {<<x[1], x[2], x[3], i>> :
       <<x, i>> \in {p \in LabBatchDayLoop(d) \X (2..(Len(available_slots) - 1)) :
                       /\ LabSlotVarFound(A, p[1][1], p[1][2], p[1][3], available_slots[p[2]])
                       /\ LabSlotVarFound(A, p[1][1], p[1][2], p[1][3], available_slots[p[2] - 1])
                       /\ LabSlotVarFound(A, p[1][1], p[1][2], p[1][3], available_slots[p[2] + 1])}}

\* late_session_vars: every variable the loop matches, with the number of
\* times it is appended (weight = i * 2, i counted from 0)
LabLateSessionTerms(d, A) ==
    {<<k, (IndexOf(available_slots, k.time_slot) - 1) * 2>> :
       k \in {x \in A : /\ <<x.class_name, x.batch, x.day>> \in LabBatchDayLoop(d)
                        /\ x.time_slot \in Range(available_slots)
                        /\ x.time_slot \in DOMAIN consecutive_slots
                        /\ IndexOf(available_slots, x.time_slot) > 1}}

\* used_lab_vars: the lab rooms that have a variable
UsedLabKeys(d, A) == {lab \in Range(d.lab_rooms) : \E k \in A : k.lab = lab}

\* room_conflict_vars: (room, day, start slot) with more than one variable
RoomConflictKeys(d, A) ==
    {x \in Range(d.lab_rooms) \X LabSlotLoop :
       Cardinality({k \in A : k.lab = x[1] /\ k.day = x[2][1] /\ k.time_slot = x[2][2]}) > 1}

EmptyLabObjective ==
    [gap_vars |-> {}, late_session_vars |-> {}, used_lab_vars |-> {}, room_conflict_vars |-> {}]

\* the four lists the call of Minimize sums
lab_add_optimization_objective(d, A) ==
    [gap_vars |-> LabGapKeys(d, A),
     late_session_vars |-> LabLateSessionTerms(d, A),
     used_lab_vars |-> UsedLabKeys(d, A),
     room_conflict_vars |-> RoomConflictKeys(d, A)]

\* what one lab variable set to true adds to the minimized sum through the
\* term 2 * sum(late_session_vars): twice the number of its occurrences
LabLateCost(obj, k) ==
    IF \E e \in obj.late_session_vars : e[1] = k
    THEN 2 * (CHOOSE e \in obj.late_session_vars : e[1] = k)[2]
    ELSE 0

(***************************************************************************)
(* The solver.  CpSolutions(V, m) is the set of assignments (the set of    *)
(* variables that are true) satisfying every posted constraint of m.  The  *)
(* reified auxiliaries of the objectives (gap, used_lab, room_conflict,    *)
(* activity, spread) can always be given a value and exclude no            *)
(* assignment of the decision variables.  An OPTIMAL answer is one of the  *)
(* FEASIBLE ones and solve treats both alike.                              *)
(***************************************************************************)
Satisfies(sel, m) ==
    /\ \A c \in m.linear :
         LET n == Cardinality(sel \cap c.vars)
         IN  IF c.op = "eq" THEN n = c.rhs ELSE n <= c.rhs
    /\ \A p \in m.implications : p[1] \in sel => p[2] \in sel

\* no constraint that holds v is already over its right-hand side
UpperOk(sel, v, m) ==
    \A c \in m.linear : v \in c.vars => Cardinality((sel \cup {v}) \cap c.vars) <= c.rhs

RECURSIVE Search(_, _, _)
Search(rest, sel, m) ==
    IF rest = {} THEN (IF Satisfies(sel, m) THEN {sel} ELSE {})
    ELSE LET v == CHOOSE x \in rest : TRUE
         IN  Search(rest \ {v}, sel, m) \cup
             (IF UpperOk(sel, v, m) THEN Search(rest \ {v}, sel \cup {v}, m) ELSE {})

CpSolutions(V, m) ==
    LET forced == UNION {c.vars : c \in {x \in m.linear : x.rhs = 0}}
    IN  Search(V \ forced, {}, m)

(***************************************************************************)
(* Lab phase: extraction.  class_timetables[c]["labs"][day][slot] is a     *)
(* break marker at a break slot and a map batch -> cell elsewhere.         *)
(***************************************************************************)
None == [type |-> "None"]

BreakCell(t) ==
    IF t = lunch_break THEN [type |-> "Break", subject |-> "LUNCH BREAK"]
    ELSE IF t = morning_break THEN [type |-> "Break", subject |-> "MORNING BREAK"]
    ELSE [type |-> "Break", subject |-> "EVENING BREAK"]

LabCell(k, continued) ==
    [type |-> "Lab", subject |-> k.subject, teacher |-> k.teacher, lab |-> k.lab,
     continued |-> continued]

\* position of a key in the insertion order of self.assignments
LabKeyRank(d, k) ==
    LET year == _get_year_from_class(k.class_name)
        ci == IndexOf(AllClasses(d), k.class_name)
        si == IndexOf(d.subjects_by_year[year], k.subject)
        di == IndexOf(days, k.day)
        ti == IndexOf(AllowedLabSlots(year, k.subject), k.time_slot)
        bi == k.batch[3]
        ri == IndexOf(d.lab_rooms, k.lab)
    IN  ((((ci * 16 + si) * 16 + di) * 16 + ti) * 16 + bi) * 16 + ri

\* the keys whose extraction writes the cell (c, dy, t, b): at their start
\* slot, or at the slot after it
\* faulty variant: the block writing the second hour is left out
LabCellWriters_StartOnly(sel, c, dy, t, b) ==
    {k \in sel : k.class_name = c /\ k.day = dy /\ k.batch = b /\ k.time_slot = t}

LabCellWriters(sel, c, dy, t, b) ==
    {k \in sel :
       /\ k.class_name = c /\ k.day = dy /\ k.batch = b
       /\ \/ k.time_slot = t
          \/ /\ k.time_slot \in DOMAIN consecutive_slots
             /\ consecutive_slots[k.time_slot] = t
             /\ t \in Range(available_slots)}

_extract_timetables(d, sel) ==
    [c \in Range(AllClasses(d)) |->
      [dy \in Range(days) |->
        [t \in Range(all_time_slots) |->
          IF t \in break_slots THEN BreakCell(t)
          ELSE [b \in Range(BatchesOf(c)) |->
                 LET w == LabCellWriters(sel, c, dy, t, b)
                 IN  IF w = {} THEN None
                     ELSE LET last == CHOOSE k \in w :
                                        \A o \in w : LabKeyRank(d, o) <= LabKeyRank(d, k)
                          IN  LabCell(last, last.time_slot # t)]]]]

(***************************************************************************)
(* Lecture phase: decision variables.  A key of self.assignments is the    *)
(* record of its tuple (the constant activity type "lecture" is left out). *)
(***************************************************************************)
HasLectures(d, subject) ==
    subject \in DOMAIN d.course_structure /\ d.course_structure[subject].lectures > 0

\* faulty variant: every year may use every teaching slot
AllowedLectureSlots_All(d, year) == available_slots

\* allowed_slots of a year in the lecture loops
AllowedLectureSlots(d, year) ==
    IF year = "Third Year" THEN te_lecture_slots
    ELSE IF year = "Second Year" THEN se_lecture_slots
    ELSE available_slots

\* allowed_rooms of a year in the lecture loops
AllowedLectureRooms(d, year) ==
    IF year = "Third Year" THEN <<"507">>
    ELSE IF year = "Second Year" THEN <<"506">>
    ELSE d.rooms

LectureKey(c, s, li, dy, t, tch, room) ==
    [class_name |-> c, subject |-> s, lecture_index |-> li, day |-> dy, time_slot |-> t,
     teacher |-> tch, room |-> room]

create_lecture_variables(d) ==
    UNION {
      LET year == _get_year_from_class(c)
      IN  UNION {
            IF HasLectures(d, s)
            THEN {LectureKey(c, s, li, dy, t, d.teacher_assignments[year][s], room) :
                    li \in 0..(d.course_structure[s].lectures - 1), dy \in Range(days),
                    t \in Range(AllowedLectureSlots(d, year)),
                    room \in Range(AllowedLectureRooms(d, year))}
            ELSE {}
            : s \in Range(d.subjects_by_year[year])}
      : c \in Range(AllClasses(d))}

(***************************************************************************)
(* Lecture phase: hard constraints.                                        *)
(***************************************************************************)
\* the keys one (class, subject) loop body can name
LectureSubjectVars(d, A, c, s) ==
    LET year == _get_year_from_class(c)
    IN  {k \in A :
           /\ k.class_name = c /\ k.subject = s
           /\ k.lecture_index \in 0..(d.course_structure[s].lectures - 1)
           /\ k.day \in Range(days)
           /\ k.time_slot \in Range(AllowedLectureSlots(d, year))
           /\ k.teacher = d.teacher_assignments[year][s]
           /\ k.room \in Range(AllowedLectureRooms(d, year))}

\* (class, subject) pairs with lectures
LectureSubjects(d) ==
    UNION {{<<c, s>> : s \in {x \in Range(d.subjects_by_year[_get_year_from_class(c)]) :
                               HasLectures(d, x)}}
           : c \in Range(AllClasses(d))}

\* "Each lecture must be scheduled exactly once for each class"
LectureExactConstraints(d, A) ==
    UNION {
      {Lin({k \in LectureSubjectVars(d, A, cs[1], cs[2]) : k.lecture_index = li}, "eq", 1) :
         li \in {x \in 0..(d.course_structure[cs[2]].lectures - 1) :
                   {k \in LectureSubjectVars(d, A, cs[1], cs[2]) : k.lecture_index = x} # {}}}
      : cs \in LectureSubjects(d)}

LectureSlotLoop == Range(days) \X Range(available_slots)

LectureTeacherConstraints(d, A) ==
    UNION {
      LET tv == {k \in A : k.day = x[2] /\ k.time_slot = x[3] /\ k.teacher = x[1]}
          unavailable ==
            /\ x[1] \in DOMAIN d.teacher_availability
            /\ x[2] \in DOMAIN d.teacher_availability[x[1]]
            /\ x[3] \notin d.teacher_availability[x[1]][x[2]]
      IN  IF tv = {} THEN {}
          ELSE (IF unavailable THEN {Lin(tv, "eq", 0)} ELSE {}) \cup {Lin(tv, "le", 1)}
      : x \in {<<t, ds[1], ds[2]>> : t \in d.teachers, ds \in LectureSlotLoop}}

\* faulty variant: only the first hour of a lab blocks its teacher
LectureLabTeacherConstraints_FirstHour(d, A, lab_sched) ==
    UNION {
      LET labs == lab_sched[x[1]][x[2]][x[3]]
      IN  UNION {
            IF labs[b].type = "Lab" /\ ~labs[b].continued
            THEN LET lv == {k \in A : k.day = x[2] /\ k.time_slot = x[3]
                                       /\ k.teacher = labs[b].teacher}
                 IN  IF lv = {} THEN {} ELSE {Lin(lv, "eq", 0)}
            ELSE {}
            : b \in DOMAIN labs}
      : x \in {<<c, ds[1], ds[2]>> :
                 c \in Range(AllClasses(d)) \cap DOMAIN lab_sched,
                 ds \in Range(days) \X Range(available_slots)}}

\* "Prevent teacher conflicts with lab schedule": every non-empty cell of the
\* lab grid, first hour or continued, blocks its teacher at that exact slot
LectureLabTeacherConstraints(d, A, lab_sched) ==
    UNION {
      LET labs == lab_sched[x[1]][x[2]][x[3]]
      IN  UNION {
            IF labs[b].type = "Lab"
            THEN LET lv == {k \in A : k.day = x[2] /\ k.time_slot = x[3]
                                       /\ k.teacher = labs[b].teacher}
                 IN  IF lv = {} THEN {} ELSE {Lin(lv, "eq", 0)}
            ELSE {}
            : b \in DOMAIN labs}
      : x \in {<<c, ds[1], ds[2]>> :
                 c \in Range(AllClasses(d)) \cap DOMAIN lab_sched, ds \in LectureSlotLoop}}

LectureRoomConstraints(d, A) ==
    UNION {
      LET rv == {k \in A : k.day = x[2] /\ k.time_slot = x[3] /\ k.room = x[1]}
      IN  IF rv = {} THEN {} ELSE {Lin(rv, "le", 1)}
      : x \in {<<r, ds[1], ds[2]>> : r \in Range(d.rooms), ds \in LectureSlotLoop}}

\* the class's lecture variables at one (day, slot)
LectureClassVars(A, c, dy, t) ==
    {k \in A : k.class_name = c /\ k.day = dy /\ k.time_slot = t}

LectureClassConstraints(d, A) ==
    UNION {
      UNION {
        LET cv == LectureClassVars(A, c, ds[1], ds[2])
        IN  IF cv = {} THEN {} ELSE {Lin(cv, "le", 1)}
        : ds \in Range(days) \X Range(AllowedLectureSlots(d, _get_year_from_class(c)))}
      : c \in Range(AllClasses(d))}

\* the second hour get_lab_slots_for_class adds for a first hour
SecondHour ==
    "8:15-9:15" :> "9:15-10:15" @@ "10:30-11:30" :> "11:30-12:30" @@
    "1:15-2:15" :> "2:15-3:15" @@ "3:30-4:30" :> "4:30-5:30"

\* faulty variant: the second hour of a lab is not added
get_lab_slots_for_class_FirstHour(lab_sched, c) ==
    IF c \notin DOMAIN lab_sched THEN {}
    ELSE {ds \in Range(days) \X Range(available_slots) :
            \E b \in DOMAIN lab_sched[c][ds[1]][ds[2]] :
               /\ lab_sched[c][ds[1]][ds[2]][b].type = "Lab"
               /\ ~lab_sched[c][ds[1]][ds[2]][b].continued}

get_lab_slots_for_class(lab_sched, c) ==
    IF c \notin DOMAIN lab_sched THEN {}
    ELSE LET starts ==
               {ds \in LectureSlotLoop :
                  \E b \in DOMAIN lab_sched[c][ds[1]][ds[2]] :
                     /\ lab_sched[c][ds[1]][ds[2]][b].type = "Lab"
                     /\ ~lab_sched[c][ds[1]][ds[2]][b].continued}
         IN  starts \cup {<<ds[1], SecondHour[ds[2]]>> : ds \in {x \in starts : x[2] \in DOMAIN SecondHour}}

\* "Lab conflict constraints (no lectures when labs are scheduled)"
LectureLabConflictConstraints(d, A, lab_sched) ==
    UNION {
      UNION {
        LET cv == LectureClassVars(A, c, ds[1], ds[2])
        IN  IF cv = {} THEN {} ELSE {Lin(cv, "eq", 0)}
        : ds \in {x \in get_lab_slots_for_class(lab_sched, c) :
                    x[2] \in Range(AllowedLectureSlots(d, _get_year_from_class(c)))}}
      : c \in Range(AllClasses(d))}

\* faulty variant: the per-day sum is taken per lecture_index
LectureDayConstraints_PerIndex(d, A) ==
    UNION {
      UNION {
        LET sv == {k \in LectureSubjectVars(d, A, x[1][1], x[1][2]) :
                     k.day = x[2] /\ k.lecture_index = x[3]}
        IN  IF sv = {} THEN {} ELSE {Lin(sv, "le", 1)}
        : x \in {cs} \X Range(days) \X (0..(d.course_structure[cs[2]].lectures - 1))}
      : cs \in LectureSubjects(d)}

\* "No more than one lecture per subject per day per class"
LectureDayConstraints(d, A) ==
    UNION {
      UNION {
        LET sv == {k \in LectureSubjectVars(d, A, cs[1], cs[2]) : k.day = dy}
        IN  IF sv = {} THEN {} ELSE {Lin(sv, "le", 1)}
        : dy \in Range(days)}
      : cs \in LectureSubjects(d)}

add_lecture_constraints(d, A, lab_sched) ==
    [linear |-> LectureExactConstraints(d, A) \cup LectureTeacherConstraints(d, A)
                  \cup LectureLabTeacherConstraints(d, A, lab_sched)
                  \cup LectureRoomConstraints(d, A) \cup LectureClassConstraints(d, A)
                  \cup LectureLabConflictConstraints(d, A, lab_sched)
                  \cup LectureDayConstraints(d, A),
     implications |-> {}]

(***************************************************************************)
(* Lecture phase: extraction.                                              *)
(***************************************************************************)
LectureCell(k) ==
    [type |-> "Lecture", subject |-> k.subject, teacher |-> k.teacher, room |-> k.room,
     lecture_index |-> k.lecture_index]

\* position of a key in the insertion order of self.assignments
LectureKeyRank(d, k) ==
    LET year == _get_year_from_class(k.class_name)
        ci == IndexOf(AllClasses(d), k.class_name)
        si == IndexOf(d.subjects_by_year[year], k.subject)
        di == IndexOf(days, k.day)
        ti == IndexOf(AllowedLectureSlots(d, year), k.time_slot)
        ri == IndexOf(AllowedLectureRooms(d, year), k.room)
    IN  ((((ci * 16 + si) * 16 + k.lecture_index) * 16 + di) * 16 + ti) * 16 + ri

extract_lecture_timetables(d, sel) ==
    [c \in Range(AllClasses(d)) |->
      [dy \in Range(days) |->
        [t \in Range(all_time_slots) |->
          IF t \in break_slots THEN BreakCell(t)
          ELSE LET w == LectureClassVars(sel, c, dy, t)
               IN  IF w = {} THEN None
                   ELSE LectureCell(CHOOSE k \in w :
                                      \A o \in w : LectureKeyRank(d, o) <= LectureKeyRank(d, k))]]]

(***************************************************************************)
(* Lecture phase: add_optimization_objective.  Every auxiliary variable is *)
(* fixed by its defining constraints once the lecture variables are, so it *)
(* is named by its key and valued by an operator over the selection.       *)
(***************************************************************************)
\* the lecture variables appended to activity_vars of one slot
LectureActivityVars(A, c, dy, t) ==
    {k \in A : k.class_name = c /\ k.day = dy /\ k.time_slot = t}

\* the batches for which a constant-true lab_indicator joins activity_vars
LabIndicators(lab_sched, c, dy, t) ==
    IF c \notin DOMAIN lab_sched THEN {}
    ELSE {b \in DOMAIN lab_sched[c][dy][t] :
            /\ lab_sched[c][dy][t][b].type = "Lab"
            /\ ~lab_sched[c][dy][t][b].continued}

\* value of the BoolVar activity_<class>_<day>_<slot> under a selection
slot_has_activity(lab_sched, A, sel, c, dy, t) ==
    IF LectureActivityVars(A, c, dy, t) = {} /\ LabIndicators(lab_sched, c, dy, t) = {}
    THEN FALSE
    ELSE \/ LectureActivityVars(A, c, dy, t) \cap sel # {}
         \/ LabIndicators(lab_sched, c, dy, t) # {}

\* faulty variant: only the slot after the morning break is listed
PostBreakSlots_MorningOnly == <<"10:30-11:30">>

\* the slots for which a post_break_idle variable is created
PostBreakSlots == <<"10:30-11:30", "1:15-2:15">>

\* keys of the post_break_idle variables created for one (class, day)
PostBreakIdleKeys(c, dy) ==
    {<<c, dy, t>> : t \in {x \in Range(available_slots) : x \in Range(PostBreakSlots)}}

\* value of post_break_idle_<class>_<day>_<i> under a selection
post_break_idle(lab_sched, A, sel, key) ==
    ~slot_has_activity(lab_sched, A, sel, key[1], key[2], key[3])

\* keys of the gap variables created for one (class, day): the middle slot
GapKeys(c, dy) ==
    {<<c, dy, i>> : i \in 2..(Len(available_slots) - 1)}

\* value of gap_<class>_<day>_<i> under a selection
gap(lab_sched, A, sel, key) ==
    LET a(i) == slot_has_activity(lab_sched, A, sel, key[1], key[2], available_slots[i])
    IN  a(key[3] - 1) /\ a(key[3] + 1) /\ ~a(key[3])

\* the smaller of the two loop limits of the spread loop
Min(a, b) == IF a < b THEN a ELSE b

\* keys of the both_active variables created for one (class, day)
SpreadKeys(c, dy) ==
    LET n == Len(available_slots)
    IN  {<<c, dy, i, j>> : <<i, j>> \in
           {p \in (1..n) \X (1..n) : p[2] >= p[1] + 4 /\ p[2] <= Min(p[1] + 6, n)}}

\* value of spread_<class>_<day>_<i>_<j> under a selection
both_active(lab_sched, A, sel, key) ==
    /\ slot_has_activity(lab_sched, A, sel, key[1], key[2], available_slots[key[3]])
    /\ slot_has_activity(lab_sched, A, sel, key[1], key[2], available_slots[key[4]])

\* the entries one (class, day) appends to late_session_vars: the first
\* lecture variable found at a slot, with the number of times it is appended
LateSessionTerms(d, A, c, dy) ==
    {<<CHOOSE k \in LectureActivityVars(A, c, dy, available_slots[i]) :
          \A o \in LectureActivityVars(A, c, dy, available_slots[i]) :
             LectureKeyRank(d, k) <= LectureKeyRank(d, o),
       (i - 1) * 2>> :
     i \in {x \in 2..Len(available_slots) :
              LectureActivityVars(A, c, dy, available_slots[x]) # {}}}

\* the (class, day) pairs in the order the objective loop visits them
ClassDayLoop(d) ==
    LET cls == AllClasses(d)
    IN  [n \in 1..(Len(cls) * Len(days)) |->
           <<cls[((n - 1) \div Len(days)) + 1], days[((n - 1) % Len(days)) + 1]>>]

EmptyObjective ==
    [new_post_break_idle |-> {}, new_spread |-> {},
     gap_vars |-> {}, post_break_idle_vars |-> {}, spread_penalty_vars |-> {},
     late_session_vars |-> {}]

\* the auxiliary variables created per (class, day) and the four lists the
\* call of Minimize sums: gap_vars and late_session_vars were set up before
\* the loop, post_break_idle_vars and spread_penalty_vars are assigned a new
\* list in every iteration, so Minimize reads those of the last iteration
add_optimization_objective(d, A) ==
    LET loop == ClassDayLoop(d)
        last == loop[Len(loop)]
    IN  [new_post_break_idle |-> UNION {PostBreakIdleKeys(cd[1], cd[2]) : cd \in Range(loop)},
         new_spread |-> UNION {SpreadKeys(cd[1], cd[2]) : cd \in Range(loop)},
         gap_vars |-> UNION {GapKeys(cd[1], cd[2]) : cd \in Range(loop)},
         post_break_idle_vars |-> PostBreakIdleKeys(last[1], last[2]),
         spread_penalty_vars |-> SpreadKeys(last[1], last[2]),
         late_session_vars |-> UNION {LateSessionTerms(d, A, cd[1], cd[2]) : cd \in Range(loop)}]

\* what one lecture variable set to true adds to the minimized sum through
\* the term 2 * sum(late_session_vars): twice the number of its occurrences
LectureLateCost(obj, k) ==
    IF \E e \in obj.late_session_vars : e[1] = k
    THEN 2 * (CHOOSE e \in obj.late_session_vars : e[1] = k)[2]
    ELSE 0

(***************************************************************************)
(* Lecture phase: the exported sheets.  A formatted cell is the record of   *)
(* the fields its text shows.                                              *)
(***************************************************************************)
EmptyCell == [type |-> "Empty"]

\* the teacher a lab entry of the class sheet is formatted with
DisplayedLabTeacher(d, c, subject) ==
    LET year == _get_year_from_class(c)
    IN  IF subject \in DOMAIN d.teacher_assignments[year]
        THEN d.teacher_assignments[year][subject]
        ELSE "Unknown"

\* formatted_labs of one cell of the class sheet
FormattedLabs(d, lab_sched, c, dy, t) ==
    IF c \notin DOMAIN lab_sched THEN {}
    ELSE {[subject |-> lab_sched[c][dy][t][b].subject,
           teacher |-> DisplayedLabTeacher(d, c, lab_sched[c][dy][t][b].subject),
           batch |-> b,
           lab |-> lab_sched[c][dy][t][b].lab,
           continued |-> lab_sched[c][dy][t][b].continued] :
          b \in {x \in DOMAIN lab_sched[c][dy][t] : lab_sched[c][dy][t][x].type = "Lab"}}

\* the sheets of the classes: class -> day -> slot -> cell
export_combined_timetable_to_excel(d, lec_grid, lab_sched) ==
    [c \in Range(AllClasses(d)) |->
      [dy \in Range(days) |->
        [t \in Range(all_time_slots) |->
          IF t \in break_slots THEN BreakCell(t)
          ELSE IF lec_grid[c][dy][t].type = "Lecture"
               THEN [type |-> "Lecture", subject |-> lec_grid[c][dy][t].subject,
                     teacher |-> lec_grid[c][dy][t].teacher, room |-> lec_grid[c][dy][t].room]
          ELSE IF FormattedLabs(d, lab_sched, c, dy, t) # {}
               THEN [type |-> "Labs", labs |-> FormattedLabs(d, lab_sched, c, dy, t)]
          ELSE EmptyCell]]]

\* faulty variant: the branch for continued lab hours is left out
TeacherCellEntries_FirstHour(d, lec_grid, lab_sched, teacher, dy, t) ==
    {[kind |-> "Lecture", subject |-> lec_grid[c][dy][t].subject, class_name |-> c,
      batch |-> <<>>, room |-> lec_grid[c][dy][t].room, continued |-> FALSE] :
       c \in {x \in Range(AllClasses(d)) :
                /\ t \notin break_slots
                /\ lec_grid[x][dy][t].type = "Lecture"
                /\ lec_grid[x][dy][t].teacher = teacher}}
    \cup
    UNION {{[kind |-> "Lab", subject |-> lab_sched[c][dy][t][b].subject, class_name |-> c,
             batch |-> b, room |-> lab_sched[c][dy][t][b].lab,
             continued |-> lab_sched[c][dy][t][b].continued] :
              b \in {x \in (IF t \in break_slots THEN {} ELSE DOMAIN lab_sched[c][dy][t]) :
                       /\ lab_sched[c][dy][t][x].type = "Lab"
                       /\ lab_sched[c][dy][t][x].teacher = teacher
                       /\ ~lab_sched[c][dy][t][x].continued}}
           : c \in Range(AllClasses(d)) \cap DOMAIN lab_sched}

\* cell_entries of one cell of a teacher's sheet
TeacherCellEntries(d, lec_grid, lab_sched, teacher, dy, t) ==
    {[kind |-> "Lecture", subject |-> lec_grid[c][dy][t].subject, class_name |-> c,
      batch |-> <<>>, room |-> lec_grid[c][dy][t].room, continued |-> FALSE] :
       c \in {x \in Range(AllClasses(d)) :
                /\ t \notin break_slots
                /\ lec_grid[x][dy][t].type = "Lecture"
                /\ lec_grid[x][dy][t].teacher = teacher}}
    \cup
    UNION {{[kind |-> "Lab", subject |-> lab_sched[c][dy][t][b].subject, class_name |-> c,
             batch |-> b, room |-> lab_sched[c][dy][t][b].lab,
             continued |-> lab_sched[c][dy][t][b].continued] :
              b \in {x \in (IF t \in break_slots THEN {} ELSE DOMAIN lab_sched[c][dy][t]) :
                       /\ lab_sched[c][dy][t][x].type = "Lab"
                       /\ lab_sched[c][dy][t][x].teacher = teacher}}
           : c \in Range(AllClasses(d)) \cap DOMAIN lab_sched}

\* the sheets of the teachers: teacher -> day -> slot -> cell
export_teacher_timetables_to_excel(d, lec_grid, lab_sched) ==
    [teacher \in d.teachers |->
      [dy \in Range(days) |->
        [t \in Range(all_time_slots) |->
          IF t \in break_slots THEN BreakCell(t)
          ELSE IF TeacherCellEntries(d, lec_grid, lab_sched, teacher, dy, t) # {}
               THEN [type |-> "Entries",
                     entries |-> TeacherCellEntries(d, lec_grid, lab_sched, teacher, dy, t)]
          ELSE EmptyCell]]]

(***************************************************************************)
(* Inputs (department_data).  As in main, every assigned teacher is listed *)
(* in teachers and has an availability entry for every day, and the room   *)
(* lists are not empty.                                                    *)
(***************************************************************************)
AllWeek(S) == [dy \in Range(all_days) |-> S]

Course(labs, lectures) == [labs |-> labs, lectures |-> lectures]

\* Third Year, two morning labs with different teachers, one room-restricted;
\* DBMS has no lectures and its lab teacher is not its lecture teacher
CfgTE ==
    [years |-> <<"Third Year">>, classes_per_year |-> 1,
     teachers |-> {"Chimmana", "Patil"},
     lab_rooms |-> <<"501", "502">>, rooms |-> <<"506", "507">>,
     subjects_by_year |-> ("Third Year" :> <<"DBMS", "DC">>),
     course_structure |-> ("DBMS" :> Course(1, 0) @@ "DC" :> Course(1, 1)),
     lab_teacher_assignments |-> ("Third Year" :> ("DBMS" :> "Patil" @@ "DC" :> "Chimmana")),
     teacher_assignments |-> ("Third Year" :> ("DBMS" :> "Chimmana" @@ "DC" :> "Chimmana")),
     teacher_availability |->
        ("Chimmana" :> AllWeek({"8:15-9:15", "9:15-10:15", "10:30-11:30"}) @@
         "Patil" :> AllWeek({"8:15-9:15", "10:30-11:30"}))]

\* one teacher with a Second-Year lab, a Third-Year lab and lectures in both
CfgShared ==
    [years |-> <<"Second Year", "Third Year">>, classes_per_year |-> 1,
     teachers |-> {"Dolli"},
     lab_rooms |-> <<"501", "504">>, rooms |-> <<"506", "507">>,
     subjects_by_year |-> ("Second Year" :> <<"ADE">> @@ "Third Year" :> <<"MNA">>),
     course_structure |-> ("ADE" :> Course(1, 2) @@ "MNA" :> Course(1, 1)),
     lab_teacher_assignments |->
        ("Second Year" :> ("ADE" :> "Dolli") @@ "Third Year" :> ("MNA" :> "Dolli")),
     teacher_assignments |->
        ("Second Year" :> ("ADE" :> "Dolli") @@ "Third Year" :> ("MNA" :> "Dolli")),
     teacher_availability |->
        ("Dolli" :>
           [dy \in Range(all_days) |->
              IF dy = "Wednesday"
              THEN {"8:15-9:15", "9:15-10:15", "1:15-2:15", "4:30-5:30"}
              ELSE {"8:15-9:15", "9:15-10:15", "10:30-11:30", "11:30-12:30", "1:15-2:15"}])]

\* Fourth Year: every valid lab start and every lecture room is allowed
CfgBE ==
    [years |-> <<"Fourth Year">>, classes_per_year |-> 1,
     teachers |-> {"Yadav"},
     lab_rooms |-> <<"503">>, rooms |-> <<"506", "507">>,
     subjects_by_year |-> ("Fourth Year" :> <<"PRJ">>),
     course_structure |-> ("PRJ" :> Course(1, 1)),
     lab_teacher_assignments |-> ("Fourth Year" :> ("PRJ" :> "Yadav")),
     teacher_assignments |-> ("Fourth Year" :> ("PRJ" :> "Yadav")),
     teacher_availability |->
        ("Yadav" :>
           [dy \in Range(all_days) |->
              IF dy = "Monday" THEN Range(available_slots)
              ELSE IF dy = "Tuesday" THEN {"1:15-2:15", "2:15-3:15"}
              ELSE {}])]

\* Third Year AJP: evening labs, two lectures, teacher free late in the day
CfgAJP ==
    [years |-> <<"Third Year">>, classes_per_year |-> 1,
     teachers |-> {"Yadav"},
     lab_rooms |-> <<"502">>, rooms |-> <<"506", "507">>,
     subjects_by_year |-> ("Third Year" :> <<"AJP">>),
     course_structure |-> ("AJP" :> Course(1, 2)),
     lab_teacher_assignments |-> ("Third Year" :> ("AJP" :> "Yadav")),
     teacher_assignments |-> ("Third Year" :> ("AJP" :> "Yadav")),
     teacher_availability |->
        ("Yadav" :> AllWeek({"2:15-3:15", "3:30-4:30", "4:30-5:30"}))]

Inputs == {CfgTE, CfgShared, CfgBE, CfgAJP}

\* Fourth Year, availability of the only teacher has no entry for the last days
CfgNoDay ==
    [years |-> <<"Fourth Year">>, classes_per_year |-> 1,
     teachers |-> {"Yadav"},
     lab_rooms |-> <<"503">>, rooms |-> <<"506">>,
     subjects_by_year |-> ("Fourth Year" :> <<"PRJ">>),
     course_structure |-> ("PRJ" :> Course(1, 1)),
     lab_teacher_assignments |-> ("Fourth Year" :> ("PRJ" :> "Yadav")),
     teacher_assignments |-> ("Fourth Year" :> ("PRJ" :> "Yadav")),
     teacher_availability |->
        ("Yadav" :> ("Monday" :> {"8:15-9:15", "9:15-10:15"} @@ "Tuesday" :> {}))]

\* a year outside Second/Third/Fourth Year
CfgUnknownYear ==
    [years |-> <<"Final Year">>, classes_per_year |-> 1,
     teachers |-> {"Dolli"},
     lab_rooms |-> <<"502">>, rooms |-> <<"506">>,
     subjects_by_year |-> ("Second Year" :> <<"OS">> @@ "Final Year" :> <<"OS">>),
     course_structure |-> ("OS" :> Course(1, 0)),
     lab_teacher_assignments |->
        ("Second Year" :> ("OS" :> "Dolli") @@ "Final Year" :> ("OS" :> "Dolli")),
     teacher_assignments |->
        ("Second Year" :> ("OS" :> "Dolli") @@ "Final Year" :> ("OS" :> "Dolli")),
     teacher_availability |-> ("Dolli" :> AllWeek({"10:30-11:30", "11:30-12:30"}))]

\* DC has a lab, its room 501 is not among the lab rooms
CfgNoRoom ==
    [years |-> <<"Third Year">>, classes_per_year |-> 1,
     teachers |-> {"Chimmana"},
     lab_rooms |-> <<"502">>, rooms |-> <<"507">>,
     subjects_by_year |-> ("Third Year" :> <<"DC">>),
     course_structure |-> ("DC" :> Course(1, 0)),
     lab_teacher_assignments |-> ("Third Year" :> ("DC" :> "Chimmana")),
     teacher_assignments |-> ("Third Year" :> ("DC" :> "Chimmana")),
     teacher_availability |->
        ("Chimmana" :>
           [dy \in Range(all_days) |->
              IF dy = "Monday" THEN {"8:15-9:15", "9:15-10:15"} ELSE {}])]

\* the lab teacher Patil is not in teachers and is available at no time
CfgUnlistedLab ==
    [years |-> <<"Third Year">>, classes_per_year |-> 1,
     teachers |-> {"Chimmana"},
     lab_rooms |-> <<"502", "503">>, rooms |-> <<"507">>,
     subjects_by_year |-> ("Third Year" :> <<"DBMS">>),
     course_structure |-> ("DBMS" :> Course(1, 0)),
     lab_teacher_assignments |-> ("Third Year" :> ("DBMS" :> "Patil")),
     teacher_assignments |-> ("Third Year" :> ("DBMS" :> "Patil")),
     teacher_availability |->
        ("Chimmana" :> AllWeek(Range(available_slots)) @@ "Patil" :> AllWeek({}))]

\* the lecture teacher Patil of two classes is not in teachers and is
\* available at no time
CfgUnlistedLecture ==
    [years |-> <<"Second Year", "Third Year">>, classes_per_year |-> 1,
     teachers |-> {"Chimmana"},
     lab_rooms |-> <<"502">>, rooms |-> <<"506", "507">>,
     subjects_by_year |-> ("Second Year" :> <<"OS">> @@ "Third Year" :> <<"CN">>),
     course_structure |-> ("OS" :> Course(0, 1) @@ "CN" :> Course(0, 1)),
     lab_teacher_assignments |->
        ("Second Year" :> ("OS" :> "Patil") @@ "Third Year" :> ("CN" :> "Patil")),
     teacher_assignments |->
        ("Second Year" :> ("OS" :> "Patil") @@ "Third Year" :> ("CN" :> "Patil")),
     teacher_availability |->
        ("Chimmana" :> AllWeek(Range(available_slots)) @@ "Patil" :> AllWeek({}))]

\* two Third-Year classes; DC has a lab, its room 501 is not among the lab rooms
CfgTwoClassesNoRoom ==
    [years |-> <<"Third Year">>, classes_per_year |-> 2,
     teachers |-> {"Chimmana"},
     lab_rooms |-> <<"502">>, rooms |-> <<"507">>,
     subjects_by_year |-> ("Third Year" :> <<"DC">>),
     course_structure |-> ("DC" :> Course(1, 0)),
     lab_teacher_assignments |-> ("Third Year" :> ("DC" :> "Chimmana")),
     teacher_assignments |-> ("Third Year" :> ("DC" :> "Chimmana")),
     teacher_availability |->
        ("Chimmana" :>
           [dy \in Range(all_days) |->
              IF dy = "Monday" THEN {"8:15-9:15", "9:15-10:15"} ELSE {}])]

\* department_data the constructors accept although a record is incomplete
InputsOpen ==
    {CfgNoDay, CfgUnknownYear, CfgNoRoom, CfgTwoClassesNoRoom, CfgUnlistedLab, CfgUnlistedLecture}

(***************************************************************************)
(* State.                                                                  *)
(***************************************************************************)
VARIABLES
    department_data,        \* the configuration both constructors receive
    pc,                     \* position of the entry point
    lab_assignments,        \* LabTimetableGenerator.assignments (the keys)
    lab_model,              \* constraints posted on LabTimetableGenerator.model
    lab_status,             \* status returned by the lab solver
    lab_values,             \* the lab variables the solver set to true
    lab_class_timetables,   \* LabTimetableGenerator.class_timetables
    lab_objective,          \* the lists of the lab objective
    lab_schedule,           \* LectureScheduler.lab_schedule
    lecture_assignments,    \* LectureScheduler.assignments (the keys)
    lecture_model,          \* constraints posted on LectureScheduler.model
    lecture_status,         \* status returned by the lecture solver
    lecture_values,         \* the lecture variables the solver set to true
    lecture_class_timetables, \* LectureScheduler.class_timetables
    lecture_objective,      \* auxiliaries and Minimize lists of the lecture objective
    class_sheets,           \* the class sheets of the exported workbook
    teacher_sheets,         \* the teacher sheets of the exported workbook
    exit_code               \* <<>> while the process runs, then <<its exit code>>

lab_vars == <<lab_assignments, lab_model, lab_status, lab_values, lab_class_timetables,
              lab_objective>>

lecture_vars == <<lab_schedule, lecture_assignments, lecture_model, lecture_status,
                  lecture_values, lecture_class_timetables, lecture_objective,
                  class_sheets, teacher_sheets>>

vars == <<department_data, pc, lab_vars, lecture_vars, exit_code>>

EmptyModel == [linear |-> {}, implications |-> {}]

Init ==
    /\ department_data \in Inputs
    /\ pc = "start"
    /\ lab_assignments = {}
    /\ lab_model = EmptyModel
    /\ lab_status = "NONE"
    /\ lab_values = {}
    /\ lab_class_timetables = <<>>
    /\ lab_objective = EmptyLabObjective
    /\ lab_schedule = <<>>
    /\ lecture_assignments = {}
    /\ lecture_model = EmptyModel
    /\ lecture_status = "NONE"
    /\ lecture_values = {}
    /\ lecture_class_timetables = <<>>
    /\ lecture_objective = EmptyObjective
    /\ class_sheets = <<>>
    /\ teacher_sheets = <<>>
    /\ exit_code = <<>>

\* LabTimetableGenerator.solve up to the solver call
LabBuild ==
    /\ pc = "start"
    /\ lab_assignments' = create_lab_variables(department_data)
    /\ lab_model' = add_lab_constraints(department_data, lab_assignments')
    /\ lab_objective' = lab_add_optimization_objective(department_data, lab_assignments')
    /\ pc' = "lab_solving"
    /\ UNCHANGED <<department_data, lab_status, lab_values, lab_class_timetables, lecture_vars,
                   exit_code>>

\* the solver returns an assignment; solve extracts it and returns True
LabSolved ==
    /\ pc = "lab_solving"
    /\ \E sol \in CpSolutions(lab_assignments, lab_model) :
         /\ lab_values' = sol
         /\ lab_class_timetables' = _extract_timetables(department_data, sol)
    /\ lab_status' = "FEASIBLE"
    /\ pc' = "lab_done"
    /\ UNCHANGED <<department_data, lab_assignments, lab_model, lab_objective, lecture_vars,
                   exit_code>>

\* faulty variant: the failure branch of solve extracts all the same
LabNoSolution_Extracts ==
    /\ pc = "lab_solving"
    /\ lab_status' = IF CpSolutions(lab_assignments, lab_model) = {} THEN "INFEASIBLE" ELSE "UNKNOWN"
    /\ lab_class_timetables' = _extract_timetables(department_data, {})
    /\ pc' = "lab_failed"
    /\ exit_code' = <<0>>
    /\ UNCHANGED <<department_data, lab_assignments, lab_model, lab_values, lab_objective,
                   lecture_vars>>

\* the solver returns no assignment (none exists, or the time ran out): solve
\* returns False, both main functions return and the process ends
LabNoSolution ==
    /\ pc = "lab_solving"
    /\ lab_status' = IF CpSolutions(lab_assignments, lab_model) = {} THEN "INFEASIBLE" ELSE "UNKNOWN"
    /\ pc' = "lab_failed"
    /\ exit_code' = <<0>>
    /\ UNCHANGED <<department_data, lab_assignments, lab_model, lab_values, lab_class_timetables,
                   lab_objective, lecture_vars>>

\* faulty variant: main goes on when the lab generator returned None
LectureBuild_AfterFailure ==
    /\ pc \in {"lab_done", "lab_failed"}
    /\ lab_schedule' = lab_class_timetables
    /\ lecture_assignments' = create_lecture_variables(department_data)
    /\ lecture_model' = add_lecture_constraints(department_data, lecture_assignments', lab_schedule')
    /\ lecture_objective' = add_optimization_objective(department_data, lecture_assignments')
    /\ pc' = "lecture_solving"
    /\ UNCHANGED <<department_data, lab_vars, lecture_status, lecture_values,
                   lecture_class_timetables, class_sheets, teacher_sheets, exit_code>>

\* main of the lecture module after the lab generator returned: the
\* LectureScheduler constructor, then LectureScheduler.solve up to the solver call
LectureBuild ==
    /\ pc = "lab_done"
    /\ lab_schedule' = lab_class_timetables
    /\ lecture_assignments' = create_lecture_variables(department_data)
    /\ lecture_model' = add_lecture_constraints(department_data, lecture_assignments', lab_schedule')
    /\ lecture_objective' = add_optimization_objective(department_data, lecture_assignments')
    /\ pc' = "lecture_solving"
    /\ UNCHANGED <<department_data, lab_vars, lecture_status, lecture_values,
                   lecture_class_timetables, class_sheets, teacher_sheets, exit_code>>

\* the solver returns an assignment; solve extracts it and returns True, main
\* prints and exports, returns and the process ends
LectureSolved ==
    /\ pc = "lecture_solving"
    /\ \E sol \in CpSolutions(lecture_assignments, lecture_model) :
         /\ lecture_values' = sol
         /\ lecture_class_timetables' = extract_lecture_timetables(department_data, sol)
    /\ lecture_status' = "FEASIBLE"
    /\ class_sheets' =
         export_combined_timetable_to_excel(department_data, lecture_class_timetables',
                                            lab_schedule)
    /\ teacher_sheets' =
         export_teacher_timetables_to_excel(department_data, lecture_class_timetables',
                                            lab_schedule)
    /\ pc' = "done"
    /\ exit_code' = <<0>>
    /\ UNCHANGED <<department_data, lab_vars, lab_schedule, lecture_assignments, lecture_model,
                   lecture_objective>>

\* faulty variant: the failure branch drops the lab schedule it was given
LectureNoSolution_DropsLabs ==
    /\ pc = "lecture_solving"
    /\ lecture_status' =
         IF CpSolutions(lecture_assignments, lecture_model) = {} THEN "INFEASIBLE" ELSE "UNKNOWN"
    /\ lab_schedule' = <<>>
    /\ pc' = "lecture_failed"
    /\ exit_code' = <<0>>
    /\ UNCHANGED <<department_data, lab_vars, lecture_assignments, lecture_model,
                   lecture_values, lecture_class_timetables, lecture_objective,
                   class_sheets, teacher_sheets>>

\* the solver returns no assignment (none exists, or the time ran out)
LectureNoSolution ==
    /\ pc = "lecture_solving"
    /\ lecture_status' =
         IF CpSolutions(lecture_assignments, lecture_model) = {} THEN "INFEASIBLE" ELSE "UNKNOWN"
    /\ pc' = "lecture_failed"
    /\ exit_code' = <<0>>
    /\ UNCHANGED <<department_data, lab_vars, lab_schedule, lecture_assignments, lecture_model,
                   lecture_values, lecture_class_timetables, lecture_objective,
                   class_sheets, teacher_sheets>>

Next ==
    \/ LabBuild
    \/ LabSolved
    \/ LabNoSolution
    \/ LectureBuild
    \/ LectureSolved
    \/ LectureNoSolution

Spec == Init /\ [][Next]_vars

\* the same program started on a configuration of InputsOpen
InitOpen ==
    /\ department_data \in InputsOpen
    /\ pc = "start"
    /\ lab_assignments = {}
    /\ lab_model = EmptyModel
    /\ lab_status = "NONE"
    /\ lab_values = {}
    /\ lab_class_timetables = <<>>
    /\ lab_objective = EmptyLabObjective
    /\ lab_schedule = <<>>
    /\ lecture_assignments = {}
    /\ lecture_model = EmptyModel
    /\ lecture_status = "NONE"
    /\ lecture_values = {}
    /\ lecture_class_timetables = <<>>
    /\ lecture_objective = EmptyObjective
    /\ class_sheets = <<>>
    /\ teacher_sheets = <<>>
    /\ exit_code = <<>>

SpecOpen == InitOpen /\ [][Next]_vars

(***************************************************************************)
(* Properties.                                                             *)
(***************************************************************************)
\* both hours a selected lab variable occupies
LabHours(k) ==
    {k.time_slot} \cup
    (IF k.time_slot \in DOMAIN consecutive_slots THEN {consecutive_slots[k.time_slot]} ELSE {})

LabReturned == lab_status = "FEASIBLE"

LectureReturned == lecture_status = "FEASIBLE"

\* (class, subject) pairs with required_labs > 0
LabSubjects(d) ==
    UNION {{<<c, s>> : s \in {x \in Range(d.subjects_by_year[_get_year_from_class(c)]) :
                               HasLabs(d, x)}}
           : c \in Range(AllClasses(d))}

\* C1: in every solution the lab phase returns, every (class, subject with
\* required_labs = k > 0, batch) has exactly k selected lab variables,
\* counted over all days, start slots and lab rooms.
C1_ExactLabCount ==
    LabReturned =>
      \A cs \in LabSubjects(department_data) : \A b \in Range(BatchesOf(cs[1])) :
         Cardinality({k \in lab_values :
                        k.class_name = cs[1] /\ k.subject = cs[2] /\ k.batch = b})
           = department_data.course_structure[cs[2]].labs

\* C2: in every solution the lab phase returns, every selected lab of ADE or
\* DC is in room 501 and every selected lab of MNA is in room 504.
C2_RoomRestriction ==
    LabReturned =>
      \A k \in lab_values :
         /\ k.subject \in {"ADE", "DC"} => k.lab = "501"
         /\ k.subject = "MNA" => k.lab = "504"

\* a slot the teacher may be used at on that day
Available(d, teacher, dy, t) ==
    /\ teacher \in DOMAIN d.teacher_availability
    /\ dy \in DOMAIN d.teacher_availability[teacher]
    /\ t \in d.teacher_availability[teacher][dy]

\* C3: every (day, slot) at which a teacher is occupied - both hours of each
\* lab and the slot of each lecture - is in teacher_availability[teacher][day].
C3_TeacherAvailability ==
    /\ LabReturned =>
         \A k \in lab_values : \A t \in LabHours(k) :
            Available(department_data, k.teacher, k.day, t)
    /\ LectureReturned =>
         \A l \in lecture_values : Available(department_data, l.teacher, l.day, l.time_slot)

C5_ClassExclusive ==
    LectureReturned =>
      /\ \A l1, l2 \in lecture_values :
           (l1.class_name = l2.class_name /\ l1.day = l2.day /\ l1.time_slot = l2.time_slot)
             => l1 = l2
      /\ \A l \in lecture_values :
           \A b \in DOMAIN lab_schedule[l.class_name][l.day][l.time_slot] :
              lab_schedule[l.class_name][l.day][l.time_slot][b].type # "Lab"

\* a lecture placed on a day on which its class has a lab
C5_Witness ==
    /\ LectureReturned
    /\ \E l \in lecture_values : \E k \in lab_values :
         k.class_name = l.class_name /\ k.day = l.day

\* C6: in every solution the lab phase returns no (day, slot, lab room) is
\* occupied by more than one lab, both hours of each lab counted.
C6_RoomExclusive ==
    LabReturned =>
      \A k1, k2 \in lab_values :
         (k1 # k2 /\ k1.lab = k2.lab /\ k1.day = k2.day)
           => LabHours(k1) \cap LabHours(k2) = {}

\* two labs at the same time in different rooms, and two labs in one room
C6_Witness ==
    /\ LabReturned
    /\ \E k1, k2 \in lab_values :
         k1.day = k2.day /\ k1.time_slot = k2.time_slot /\ k1.lab # k2.lab
    /\ \E k1, k2 \in lab_values : k1 # k2 /\ k1.lab = k2.lab

\* C7: in every solution of the lecture phase every (class, subject with
\* required_lectures = n > 0) has exactly n lectures placed, one per
\* lecture_index in 0..n-1, and no two of them on the same day.
C7_LectureCount ==
    LectureReturned =>
      \A cs \in LectureSubjects(department_data) :
         LET n == department_data.course_structure[cs[2]].lectures
             placed == {l \in lecture_values : l.class_name = cs[1] /\ l.subject = cs[2]}
         IN  /\ Cardinality(placed) = n
             /\ \A li \in 0..(n - 1) :
                  Cardinality({l \in placed : l.lecture_index = li}) = 1
             /\ \A l1, l2 \in placed : l1 # l2 => l1.day # l2.day

\* a subject with two required lectures has been placed
C7_Witness ==
    /\ LectureReturned
    /\ \E l1, l2 \in lecture_values :
         /\ l1.class_name = l2.class_name /\ l1.subject = l2.subject
         /\ l1.lecture_index = 0 /\ l2.lecture_index = 1

\* C8: in every solution the lab phase returns no batch has two labs that
\* overlap in time, both hours of each lab counted.
C8_BatchExclusive ==
    LabReturned =>
      \A k1, k2 \in lab_values :
         (k1 # k2 /\ k1.class_name = k2.class_name /\ k1.batch = k2.batch /\ k1.day = k2.day)
           => LabHours(k1) \cap LabHours(k2) = {}

\* a batch with labs of two subjects
C8_Witness ==
    /\ LabReturned
    /\ \E k1, k2 \in lab_values :
         k1.class_name = k2.class_name /\ k1.batch = k2.batch /\ k1.subject # k2.subject

\* C9: every lab the lab phase produces starts at a slot allowed for its year
\* and subject: AJP at 3:30-4:30, Third-Year non-AJP at 8:15-9:15, Second-Year
\* non-AJP at 10:30-11:30, any other year at one of the four valid starts.
C9_LabStartSlots ==
    LabReturned =>
      \A k \in lab_values :
         LET year == _get_year_from_class(k.class_name)
         IN  IF k.subject = "AJP" THEN k.time_slot = "3:30-4:30"
             ELSE IF year = "Third Year" THEN k.time_slot = "8:15-9:15"
             ELSE IF year = "Second Year" THEN k.time_slot = "10:30-11:30"
             ELSE k.time_slot \in {"8:15-9:15", "10:30-11:30", "1:15-2:15", "3:30-4:30"}

\* an AJP lab has been placed
C9_Witness ==
    LabReturned /\ \E k \in lab_values : k.subject = "AJP"

\* C10: every lecture the lecture phase produces is in the room pinned for
\* its class's year (Third Year 507, Second Year 506) and at a slot of the
\* year's allowed set; no Third-Year lecture is at 4:30-5:30.
C10_LectureRoomAndSlot ==
    LectureReturned =>
      \A l \in lecture_values :
         LET year == _get_year_from_class(l.class_name)
         IN  /\ year = "Third Year" =>
                  /\ l.room = "507"
                  /\ l.time_slot \in Range(available_slots) \ {"4:30-5:30"}
             /\ year = "Second Year" =>
                  /\ l.room = "506"
                  /\ l.time_slot \in Range(available_slots)

\* a Third-Year lecture whose teacher is free at 4:30-5:30 that day
C10_Witness ==
    /\ LectureReturned
    /\ \E l \in lecture_values :
         /\ _get_year_from_class(l.class_name) = "Third Year"
         /\ Available(department_data, l.teacher, l.day, "4:30-5:30")

\* C11: consecutive(s) is defined exactly for 8:15-9:15, 10:30-11:30,
\* 1:15-2:15 and 3:30-4:30, each mapping to the next slot of its block, and
\* every lab the lab phase produces starts at a slot where it is defined.
C11_ConsecutiveDefined ==
    /\ consecutive_slots =
         ("8:15-9:15" :> "9:15-10:15" @@ "10:30-11:30" :> "11:30-12:30" @@
          "1:15-2:15" :> "2:15-3:15" @@ "3:30-4:30" :> "4:30-5:30")
    /\ LabReturned =>
         \A k \in lab_values :
            k.time_slot \in {"8:15-9:15", "10:30-11:30", "1:15-2:15", "3:30-4:30"}

\* a lab placed in the afternoon block by a year that may use every start
C11_Witness ==
    LabReturned /\ \E k \in lab_values : k.time_slot = "1:15-2:15"

\* teacher_availability has an entry for the teacher and the day
HasDayEntry(d, teacher, dy) ==
    /\ teacher \in DOMAIN d.teacher_availability
    /\ dy \in DOMAIN d.teacher_availability[teacher]

\* C12: a teacher whose availability has no entry for a day is unavailable
\* that day: no lab and no lecture of that teacher is placed on that day.
C12_NoEntryUnavailable ==
    /\ LabReturned =>
         \A k \in lab_values : HasDayEntry(department_data, k.teacher, k.day)
    /\ LectureReturned =>
         \A l \in lecture_values : HasDayEntry(department_data, l.teacher, l.day)

\* C13: when the lab solver's status is neither OPTIMAL nor FEASIBLE, solve
\* reports failure and emits nothing: no variable value is read, extraction
\* is not run and class_timetables stays empty.
C13_LabFailureEmitsNothing ==
    lab_status \in {"INFEASIBLE", "UNKNOWN"} =>
        /\ pc = "lab_failed"
        /\ lab_values = {}
        /\ lab_class_timetables = <<>>

\* the lab solver ran out of time on a configuration that has lab variables
C13_Witness ==
    lab_status = "UNKNOWN" /\ pc = "lab_failed" /\ lab_assignments # {}

\* the lecture phase has started
LectureStarted == pc \in {"lecture_solving", "done", "lecture_failed"}

\* C14: the lab phase completes before the lecture phase starts: the lecture
\* model exists only after the lab phase returned success and extracted, the
\* lecture scheduler holds the extracted lab grid of every class, and after a
\* failed lab phase nothing of the lecture phase has happened.
C14_LabBeforeLecture ==
    /\ LectureStarted =>
         /\ LabReturned
         /\ lab_class_timetables = _extract_timetables(department_data, lab_values)
         /\ lab_schedule = lab_class_timetables
         /\ DOMAIN lab_schedule = Range(AllClasses(department_data))
    /\ ~LectureStarted =>
         /\ lab_schedule = <<>>
         /\ lecture_assignments = {}
         /\ lecture_model = EmptyModel
         /\ lecture_objective = EmptyObjective
         /\ lecture_status = "NONE"
         /\ lecture_values = {}
         /\ lecture_class_timetables = <<>>

\* the lecture model has been built over a lab grid that holds a lab
C14_Witness ==
    /\ pc = "lecture_solving"
    /\ lecture_assignments # {}
    /\ lab_values # {}
    /\ \A c \in Range(AllClasses(department_data)) : c \in DOMAIN lab_schedule

\* C15: the process ends with exit code 0 when both phases succeeded and
\* with a non-zero exit code when the lab phase or the lecture phase found no
\* solution.
C15_ExitCode ==
    exit_code # <<>> =>
        (exit_code = <<0>> <=> (LabReturned /\ LectureReturned))

\* the years of department_data the class-name rules know
KnownYears == {"Second Year", "Third Year", "Fourth Year"}

\* C16: when department_data.years holds a year other than Second, Third or
\* Fourth Year the run stops before any variable is created or the solver is
\* called, and no class of that year is scheduled.
C16_UnknownYearFatal ==
    (\E y \in Range(department_data.years) : y \notin KnownYears) =>
        /\ lab_assignments = {} /\ lecture_assignments = {}
        /\ lab_status = "NONE" /\ lecture_status = "NONE"
        /\ lab_values = {} /\ lecture_values = {}

\* a subject with a lab whose restricted room is not a lab room
RestrictionRoomMissing(d) ==
    \E cs \in LabSubjects(d) :
       \/ cs[2] \in {"ADE", "DC"} /\ "501" \notin Range(d.lab_rooms)
       \/ cs[2] = "MNA" /\ "504" \notin Range(d.lab_rooms)

\* C17: when a subject's room restriction names a room that is not in
\* lab_rooms the lab phase never returns success.
C17_MissingRoomFatal ==
    RestrictionRoomMissing(department_data) => lab_status # "FEASIBLE"

\* some batch of the class has a lab hour, first or continued, at the slot
LabPresent(lab_sched, c, dy, t) ==
    \E b \in DOMAIN lab_sched[c][dy][t] : lab_sched[c][dy][t][b].type = "Lab"

\* C18: for every (class, day) and every teaching slot at which a lab of any
\* batch of the class is present, first or continued hour, the activity
\* indicator of that slot is true in the solution the lecture phase returns.
C18_ActivityAtLabHours ==
    LectureReturned =>
        \A c \in Range(AllClasses(department_data)), dy \in Range(days),
           t \in Range(available_slots) :
           LabPresent(lab_schedule, c, dy, t) =>
              slot_has_activity(lab_schedule, lecture_assignments, lecture_values, c, dy, t)

\* C19: the minimized lecture objective contains the post-break-idle
\* auxiliaries and the spread auxiliaries of every (class, day) pair.
C19_EveryClassDayInObjective ==
    LectureStarted =>
        /\ lecture_objective.new_post_break_idle \subseteq lecture_objective.post_break_idle_vars
        /\ lecture_objective.new_spread \subseteq lecture_objective.spread_penalty_vars
        /\ \A c \in Range(AllClasses(department_data)), dy \in Range(days) :
              /\ \E k \in lecture_objective.post_break_idle_vars : k[1] = c /\ k[2] = dy
              /\ \E k \in lecture_objective.spread_penalty_vars : k[1] = c /\ k[2] = dy

\* the class has neither a selected lecture nor a lab hour at the slot
IdleAt(c, dy, t) ==
    /\ ~\E l \in lecture_values : l.class_name = c /\ l.day = dy /\ l.time_slot = t
    /\ ~LabPresent(lab_schedule, c, dy, t)

\* C20 as stated: a post-break-idle auxiliary, equal to the negation of the
\* slot's activity indicator, is created for the first teaching slot after
\* each of the three breaks: 10:30-11:30, 1:15-2:15 and 3:30-4:30.
C20_AfterEachBreak ==
    LectureStarted =>
        \A c \in Range(AllClasses(department_data)), dy \in Range(days),
           t \in {"10:30-11:30", "1:15-2:15", "3:30-4:30"} :
           /\ <<c, dy, t>> \in lecture_objective.new_post_break_idle
           /\ LectureReturned =>
                (post_break_idle(lab_schedule, lecture_assignments, lecture_values, <<c, dy, t>>)
                   <=> IdleAt(c, dy, t))

\* C20 amended: post-break-idle auxiliaries are created, for every (class,
\* day), exactly for 10:30-11:30 and 1:15-2:15, and in a returned solution
\* each is true exactly when the class has no lecture and no lab at its slot.
C20_AfterMorningAndLunch ==
    LectureStarted =>
        /\ lecture_objective.new_post_break_idle =
             Range(AllClasses(department_data)) \X Range(days) \X {"10:30-11:30", "1:15-2:15"}
        /\ LectureReturned =>
             \A key \in lecture_objective.new_post_break_idle :
                post_break_idle(lab_schedule, lecture_assignments, lecture_values, key)
                   <=> IdleAt(key[1], key[2], key[3])

\* a returned solution with one post-break slot idle, one taken by a lab and
\* one taken by a lecture
C20_Witness ==
    /\ LectureReturned
    /\ \E key \in lecture_objective.new_post_break_idle :
          post_break_idle(lab_schedule, lecture_assignments, lecture_values, key)
    /\ \E key \in lecture_objective.new_post_break_idle :
          LabPresent(lab_schedule, key[1], key[2], key[3])
    /\ \E key \in lecture_objective.new_post_break_idle :
          \E l \in lecture_values :
             l.class_name = key[1] /\ l.day = key[2] /\ l.time_slot = key[3]

\* 0-based position of a slot in self.available_slots
slot_index(t) == IndexOf(available_slots, t) - 1

\* C21: every selected lecture variable placed at the slot with index i adds
\* exactly 2*i to the lecture objective, whatever its subject and
\* lecture_index.
C21_LectureLatePenalty ==
    LectureReturned =>
        \A l \in lecture_values :
           LectureLateCost(lecture_objective, l) = 2 * slot_index(l.time_slot)

\* C22: every selected lab variable whose start slot has index i adds
\* exactly 2*i to the lab objective: 0 at 8:15-9:15, 4 at 10:30-11:30, 8 at
\* 1:15-2:15, 12 at 3:30-4:30.
C22_LabLatePenalty ==
    LabReturned =>
        \A k \in lab_values :
           LabLateCost(lab_objective, k) = 2 * slot_index(k.time_slot)

\* C28: no gap auxiliary is ever created in the lab objective: lab variables
\* sit only at the teaching-slot indices 0, 2, 4 and 6, so no interior index
\* has variables at i-1, i and i+1 and the weight-10 gap term is empty.
C28_NoLabGap ==
    /\ lab_objective.gap_vars = {}
    /\ \A k \in lab_assignments : slot_index(k.time_slot) \in {0, 2, 4, 6}
    /\ \A k \in lab_assignments :
          ~\E o \in lab_assignments :
              /\ o.class_name = k.class_name /\ o.batch = k.batch /\ o.day = k.day
              /\ slot_index(o.time_slot) = slot_index(k.time_slot) + 1

\* the objective was built for a batch with variables at 8:15-9:15 and
\* 10:30-11:30 of one day, the two neighbours of the interior index 1
C28_Witness ==
    /\ pc = "lab_solving"
    /\ \E k, o \in lab_assignments :
          /\ o.class_name = k.class_name /\ o.batch = k.batch /\ o.day = k.day
          /\ k.time_slot = "8:15-9:15" /\ o.time_slot = "10:30-11:30"

\* C23: lab extraction writes, for every selected lab variable, a cell for
\* its batch at the start slot without the continued flag and a cell with
\* the same subject, teacher and room at consecutive(start) with continued
\* set; every other teaching-slot cell of the grid is empty and break slots
\* hold the break marker.
C23_LabExtraction ==
    LabReturned =>
        /\ \A k \in lab_values :
              LET row == lab_class_timetables[k.class_name][k.day]
              IN  /\ row[k.time_slot][k.batch] =
                       [type |-> "Lab", subject |-> k.subject, teacher |-> k.teacher,
                        lab |-> k.lab, continued |-> FALSE]
                  /\ row[consecutive_slots[k.time_slot]][k.batch] =
                       [type |-> "Lab", subject |-> k.subject, teacher |-> k.teacher,
                        lab |-> k.lab, continued |-> TRUE]
        /\ \A c \in Range(AllClasses(department_data)), dy \in Range(days),
              t \in Range(all_time_slots) :
              IF t \in break_slots
              THEN lab_class_timetables[c][dy][t].type = "Break"
              ELSE \A b \in Range(BatchesOf(c)) :
                      (~\E k \in lab_values :
                           /\ k.class_name = c /\ k.day = dy /\ k.batch = b
                           /\ t \in LabHours(k))
                      => lab_class_timetables[c][dy][t][b] = None

\* an extracted grid with the labs of two batches on the same day
C23_Witness ==
    /\ LabReturned
    /\ \E k, o \in lab_values :
          k.class_name = o.class_name /\ k.batch # o.batch /\ k.day = o.day

\* C24: in the class sheets every lab entry carries the teacher of the lab
\* assignment it displays.
C24_LabCellTeacher ==
    pc = "done" =>
        \A c \in Range(AllClasses(department_data)), dy \in Range(days),
           t \in Range(available_slots) :
           class_sheets[c][dy][t].type = "Labs" =>
              \A e \in class_sheets[c][dy][t].labs :
                 \E k \in lab_values :
                    /\ k.class_name = c /\ k.subject = e.subject /\ k.batch = e.batch
                    /\ k.day = dy /\ t \in LabHours(k)
                    /\ e.teacher = k.teacher

\* C25: for every teacher with a sheet and every (day, teaching slot) the
\* teacher's cell is non-empty exactly when the teacher has a lecture at that
\* slot or a lab occupying it, first hour or continued second hour.
C25_TeacherGrid ==
    pc = "done" =>
        \A teacher \in department_data.teachers, dy \in Range(days),
           t \in Range(available_slots) :
           (teacher_sheets[teacher][dy][t].type = "Entries")
              <=> \/ \E l \in lecture_values :
                        l.teacher = teacher /\ l.day = dy /\ l.time_slot = t
                  \/ \E k \in lab_values :
                        k.teacher = teacher /\ k.day = dy /\ t \in LabHours(k)

\* a teacher's sheet with two labs shown over two slots each and a lecture
C25_Witness ==
    /\ pc = "done"
    /\ \E teacher \in department_data.teachers :
          /\ \E k, o \in lab_values :
                /\ k # o /\ k.teacher = teacher /\ o.teacher = teacher
                /\ \A x \in {k, o} : \A t \in LabHours(x) :
                      teacher_sheets[teacher][x.day][t].type = "Entries"
          /\ \E l \in lecture_values :
                /\ l.teacher = teacher
                /\ teacher_sheets[teacher][l.day][l.time_slot].type = "Entries"

\* C26: when the lecture solver's status is neither OPTIMAL nor FEASIBLE,
\* solve reports failure, no lecture assignment is emitted, nothing is
\* exported, and the lab schedule is as the lab phase produced it.
C26_LectureFailureFrame ==
    lecture_status \in {"INFEASIBLE", "UNKNOWN"} =>
        /\ pc = "lecture_failed"
        /\ lecture_values = {}
        /\ lecture_class_timetables = <<>>
        /\ class_sheets = <<>> /\ teacher_sheets = <<>>
        /\ lab_schedule = lab_class_timetables
        /\ lab_class_timetables = _extract_timetables(department_data, lab_values)
        /\ LabReturned

\* the lecture solver gave up on a model with variables over a grid with labs
C26_Witness ==
    /\ pc = "lecture_failed"
    /\ lecture_assignments # {}
    /\ lab_values # {}

\* C27: lab variables exist only at the four start slots, no lab variable
\* has a twin variable at consecutive(start), no implication x => x_twin is
\* posted, and the second hour of a selected lab is a cell written by
\* extraction, never a selected variable.
C27_NoTwinVariable ==
    /\ \A k \in lab_assignments :
          /\ k.time_slot \in {"8:15-9:15", "10:30-11:30", "1:15-2:15", "3:30-4:30"}
          /\ [k EXCEPT !.time_slot = consecutive_slots[k.time_slot]] \notin lab_assignments
    /\ lab_model.implications = {}
    /\ LabReturned =>
          \A k \in lab_values :
             /\ lab_class_timetables[k.class_name][k.day][consecutive_slots[k.time_slot]]
                   [k.batch].continued
             /\ ~\E o \in lab_values : o.time_slot = consecutive_slots[k.time_slot]

\* an evening lab: the variable sits at 3:30-4:30, its second hour is a cell
C27_Witness ==
    /\ LabReturned
    /\ \E k \in lab_values :
          /\ k.time_slot = "3:30-4:30"
          /\ lab_class_timetables[k.class_name][k.day]["4:30-5:30"][k.batch].type = "Lab"

\* a Second- or Third-Year subject with a lab whose teacher is listed
HasClusterLab(d) ==
    \E year \in {"Second Year", "Third Year"} \cap Range(d.years) :
       \E s \in Range(d.subjects_by_year[year]) :
          HasLabs(d, s) /\ d.lab_teacher_assignments[year][s] \in d.teachers

\* C29: with classes_per_year >= 2 and a Second- or Third-Year subject with
\* required_labs >= 1 whose teacher is listed in teachers, the lab model is
\* infeasible and the lab phase reports failure.
C29_TwoClassesInfeasible ==
    (department_data.classes_per_year >= 2 /\ HasClusterLab(department_data)) =>
        /\ lab_status # "FEASIBLE"
        /\ pc = "lab_solving" => CpSolutions(lab_assignments, lab_model) = {}

\* the teachers named in keys of A that department_data.teachers lacks
Unlisted(d, A) == {k.teacher : k \in A} \ d.teachers

\* two sessions of the teacher at one (day, slot) and a session at a time
\* outside the teacher's availability
Overbooked(d, sol, teacher) ==
    /\ \E k, o \in sol :
          /\ k # o /\ k.teacher = teacher /\ o.teacher = teacher
          /\ k.day = o.day /\ k.time_slot = o.time_slot
    /\ \E k \in sol :
          k.teacher = teacher /\ ~Available(d, teacher, k.day, k.time_slot)

\* C30: teacher exclusivity and availability are posted only for teachers in
\* department_data.teachers; for a teacher named in an assignment table but
\* missing from that list the model admits a solution in which the teacher
\* has two labs (two lectures) at one (day, slot) outside the availability.
C30_UnlistedTeacherUnconstrained ==
    /\ \A con \in LabTeacherConstraints(department_data, lab_assignments) :
          \A k \in con.vars : k.teacher \in department_data.teachers
    /\ \A con \in LectureTeacherConstraints(department_data, lecture_assignments) :
          \A k \in con.vars : k.teacher \in department_data.teachers
    /\ pc = "lab_solving" =>
          \A teacher \in Unlisted(department_data, lab_assignments) :
             \E sol \in CpSolutions(lab_assignments, lab_model) :
                Overbooked(department_data, sol, teacher)
    /\ pc = "lecture_solving" =>
          \A teacher \in Unlisted(department_data, lecture_assignments) :
             \E sol \in CpSolutions(lecture_assignments, lecture_model) :
                Overbooked(department_data, sol, teacher)

\* the lab solver returned two labs of the unlisted teacher at one time
C30_Witness ==
    /\ LabReturned
    /\ \E teacher \in Unlisted(department_data, lab_assignments) :
          Overbooked(department_data, lab_values, teacher)

====
